---------------------------- MODULE Spec2Model ----------------------------
(***************************************************************************)
(* Model of streamlit_app.py: the NASEA leaderboard script.  One script    *)
(* run (a "tick" of st_autorefresh) is one action, Tick, that executes the *)
(* whole top-level script: config check, load_sheet, df.empty check,       *)
(* normalize_columns, clean + validate, scoring, ranking, pagination and   *)
(* render_leaderboard_table.                                               *)
(*                                                                         *)
(* Text is a sequence of one-character strings, so that strip, lower,      *)
(* replace and the comparisons are computed character by character.  A     *)
(* cell of the fetched table is [na, s]: na is pandas' missing value.      *)
(* Costs are whole numbers of $K (the float arithmetic of the script is    *)
(* exact on them); a parsed number is [k, v] with k in num / inf / nan.    *)
(***************************************************************************)
EXTENDS Integers, Sequences, FiniteSets, TLC

(* ------------------------------ bounds -------------------------------- *)
\* highest value of the refresh counter a run may read
MaxTick == 4
\* rows in the generated large sheets (three pages at PAGE_SIZE = 18)
MaxRows == 38
\* form submissions appended to the small sheet
MaxSubs == 2
\* length of the untrusted team / outcome strings fed to the presenter
MaxEscLen == 3

(* --------------------------- program constants ------------------------ *)
PAGE_SIZE == 18
CRACKED_PENALTY_K == 1000
BROKEN_PENALTY_K == 10000
EM_REFUND_K == 10
FALLBACK_MIN_COLS == 5
DOLLARS_PER_K == 1000

(* ------------------------------- text --------------------------------- *)
\* the characters used, in code point order (the three emoji of the badges
\* are single characters above every ASCII character)
Ascii ==
  << " ", "$", "&", ",", "-", "/", "0", "1", "2", "3", "4", "5", "6", "7", "8", "9",
     ";", "<", ">",
     "A", "B", "C", "D", "E", "F", "G", "H", "I", "J", "K", "L", "M",
     "N", "O", "P", "Q", "R", "S", "T", "U", "V", "W", "X", "Y", "Z",
     "a", "b", "c", "d", "e", "f", "g", "h", "i", "j", "k", "l", "m",
     "n", "o", "p", "q", "r", "s", "t", "u", "v", "w", "x", "y", "z",
     "{check}", "{scales}", "{money}" >>

Ord(c) == CHOOSE i \in 1..Len(Ascii) : Ascii[i] = c

UpperChars == << "A", "B", "C", "D", "E", "F", "G", "H", "I", "J", "K", "L", "M",
                 "N", "O", "P", "Q", "R", "S", "T", "U", "V", "W", "X", "Y", "Z" >>
LowerChars == << "a", "b", "c", "d", "e", "f", "g", "h", "i", "j", "k", "l", "m",
                 "n", "o", "p", "q", "r", "s", "t", "u", "v", "w", "x", "y", "z" >>
DigitChars == << "0", "1", "2", "3", "4", "5", "6", "7", "8", "9" >>

IsDigit(c) == \E i \in 1..Len(DigitChars) : DigitChars[i] = c
DigitVal(c) == (CHOOSE i \in 1..Len(DigitChars) : DigitChars[i] = c) - 1

\* str.lower()
lower(s) ==
  [i \in 1..Len(s) |->
     IF \E j \in 1..Len(UpperChars) : UpperChars[j] = s[i]
     THEN LowerChars[CHOOSE j \in 1..Len(UpperChars) : UpperChars[j] = s[i]]
     ELSE s[i]]

RECURSIVE lstrip(_)
lstrip(s) == IF s # <<>> /\ Head(s) = " " THEN lstrip(Tail(s)) ELSE s

RECURSIVE rstrip(_)
rstrip(s) ==
  IF s # <<>> /\ s[Len(s)] = " " THEN rstrip(SubSeq(s, 1, Len(s) - 1)) ELSE s

\* str.strip()
strip(s) == rstrip(lstrip(s))

\* str.replace(old, new) for a one-character old
RECURSIVE replace(_, _, _)
replace(s, old, new) ==
  IF s = <<>> THEN <<>>
  ELSE (IF Head(s) = old THEN new ELSE <<Head(s)>>) \o replace(Tail(s), old, new)

\* Python's < on str: lexicographic by code point
RECURSIVE StrLess(_, _)
StrLess(a, b) ==
  IF b = <<>> THEN FALSE
  ELSE IF a = <<>> THEN TRUE
  ELSE IF Head(a) # Head(b) THEN Ord(Head(a)) < Ord(Head(b))
  ELSE StrLess(Tail(a), Tail(b))

\* the literals of the script
S_nan == << "n", "a", "n" >>
S_inf == << "i", "n", "f" >>
S_unharmed == << "u", "n", "h", "a", "r", "m", "e", "d", " ", "e", "g", "g" >>
S_cracked == << "c", "r", "a", "c", "k", "e", "d", " ", "e", "g", "g" >>
S_broken == << "b", "r", "o", "k", "e", "n", " ", "e", "g", "g" >>
S_yes == << "y", "e", "s" >>
S_y == << "y" >>
S_true == << "t", "r", "u", "e" >>
B_cleared == << "{check}", " ", "C", "L", "E", "A", "R", "E", "D" >>
B_litigation == << "{scales}", " ", "L", "I", "T", "I", "G", "A", "T", "I", "O", "N" >>
B_claim == << "{money}", " ", "F", "&", "F", " ", "C", "L", "A", "I", "M" >>

\* pandas' missing value, and a present text cell
NA == [na |-> TRUE, s |-> <<>>]
Txt(s) == [na |-> FALSE, s |-> s]

\* str(x) of a cell value: str(nan) is "nan"
str(c) == IF c.na THEN S_nan ELSE c.s


(* --------------------------- numbers ---------------------------------- *)
Num(v) == [k |-> "num", v |-> v]
NaN == [k |-> "nan", v |-> 0]
Inf == [k |-> "inf", v |-> 0]

RECURSIVE ParseDigits(_)
ParseDigits(s) ==
  IF s = <<>> THEN 0
  ELSE ParseDigits(SubSeq(s, 1, Len(s) - 1)) * 10 + DigitVal(s[Len(s)])

AllDigits(s) == s # <<>> /\ \A i \in 1..Len(s) : IsDigit(s[i])

\* pd.to_numeric(errors="coerce") on one value, for the cost texts of the
\* sheets below (no decimal point, exponent, blanks or signed specials): an
\* optionally signed run of digits is that number, "inf" in any case is
\* infinity, anything else ("nan" and the empty string included) is NaN
to_numeric(c) ==
  IF c.na THEN NaN
  ELSE IF AllDigits(c.s) THEN Num(ParseDigits(c.s))
  ELSE IF c.s # <<>> /\ Head(c.s) = "-" /\ AllDigits(Tail(c.s))
       THEN Num(0 - ParseDigits(Tail(c.s)))
  ELSE IF lower(c.s) = S_inf THEN Inf
  ELSE NaN

RECURSIVE Digits(_)
Digits(n) ==
  IF n < 10 THEN <<DigitChars[n + 1]>>
  ELSE Digits(n \div 10) \o <<DigitChars[(n % 10) + 1]>>

RECURSIVE Group(_)
Group(d) ==
  IF Len(d) <= 3 THEN d
  ELSE Group(SubSeq(d, 1, Len(d) - 3)) \o <<",">> \o SubSeq(d, Len(d) - 2, Len(d))

\* f"${x:,}" for an int x
FormatDollars(x) ==
  <<"$">> \o (IF x < 0 THEN <<"-">> \o Group(Digits(0 - x)) ELSE Group(Digits(x)))

(* ---------------------------- helpers --------------------------------- *)
H_TEAM == "Team Name"
H_COST == "Supply Cost in $"
H_OUTCOME == "Outcome"
H_EMS == "EM Questions Completed"
H_EM == "EM Question Completed"

HasCol(df, h) == \E i \in 1..Len(df.columns) : df.columns[i] = h
ColIdx(df, h) == CHOOSE i \in 1..Len(df.columns) : df.columns[i] = h

\* "Pick whichever EM column exists" (None is the empty string)
em_col(df) ==
  IF HasCol(df, H_EMS) THEN H_EMS
  ELSE IF HasCol(df, H_EM) THEN H_EM
  ELSE ""

\* the named match of normalize_columns resolves all four fields
NamedMatch(df) ==
  em_col(df) # "" /\ HasCol(df, H_TEAM) /\ HasCol(df, H_COST) /\ HasCol(df, H_OUTCOME)

\* faulty variant: the first four columns instead of the four named ones
NamedRows_FirstFour(df) ==
  [r \in 1..Len(df.rows) |->
     [team_name |-> df.rows[r][1],
      cost_k |-> df.rows[r][2],
      outcome |-> df.rows[r][3],
      em_completed |-> df.rows[r][4]]]

\* df[["Team Name", "Supply Cost in $", "Outcome", em_col]]
NamedRows(df) ==
  [r \in 1..Len(df.rows) |->
     [team_name |-> df.rows[r][ColIdx(df, H_TEAM)],
      cost_k |-> df.rows[r][ColIdx(df, H_COST)],
      outcome |-> df.rows[r][ColIdx(df, H_OUTCOME)],
      em_completed |-> df.rows[r][ColIdx(df, em_col(df))]]]

\* df.iloc[:, 1:5]
PositionalRows(df) ==
  [r \in 1..Len(df.rows) |->
     [team_name |-> df.rows[r][2],
      cost_k |-> df.rows[r][3],
      outcome |-> df.rows[r][4],
      em_completed |-> df.rows[r][5]]]

\* faulty variant: no positional fallback
normalize_columns_NoFallback(df) ==
  IF NamedMatch(df)
  THEN [ok |-> TRUE, via |-> "named", rows |-> NamedRows(df), found |-> <<>>]
  ELSE [ok |-> FALSE, via |-> "error", rows |-> <<>>, found |-> df.columns]

\* the result of normalize_columns: the renamed frame, or the ValueError
\* with list(df.columns) in its message
normalize_columns(df) ==
  IF NamedMatch(df)
  THEN [ok |-> TRUE, via |-> "named", rows |-> NamedRows(df), found |-> <<>>]
  ELSE IF Len(df.columns) >= FALLBACK_MIN_COLS
  THEN [ok |-> TRUE, via |-> "positional", rows |-> PositionalRows(df), found |-> <<>>]
  ELSE [ok |-> FALSE, via |-> "error", rows |-> <<>>, found |-> df.columns]

penalty_k(o) ==
  IF o = S_cracked THEN CRACKED_PENALTY_K
  ELSE IF o = S_broken THEN BROKEN_PENALTY_K
  ELSE 0

refund_k(e) == IF e \in {S_yes, S_y, S_true} THEN EM_REFUND_K ELSE 0

\* faulty variant: the outcome and em_completed text compared without strip()
compute_score_k_NoStrip(cost_k, outcome, em_completed) ==
  IF cost_k.k = "num"
  THEN Num(cost_k.v + penalty_k(lower(str(outcome))) - refund_k(lower(str(em_completed))))
  ELSE cost_k

\* float(cost_k) + penalty_k - refund_k; inf and nan absorb the finite terms
compute_score_k(cost_k, outcome, em_completed) ==
  IF cost_k.k = "num"
  THEN Num(cost_k.v + penalty_k(lower(strip(str(outcome))))
                    - refund_k(lower(strip(str(em_completed)))))
  ELSE cost_k

outcome_badge(outcome) ==
  LET o == lower(strip(str(outcome)))
  IN  IF o = S_unharmed THEN B_cleared
      ELSE IF o = S_cracked THEN B_litigation
      ELSE IF o = S_broken THEN B_claim
      ELSE str(outcome)

\* faulty variant: "<" left as it is
esc_html_NoLt(s) ==
  replace(replace(s, "&", <<"&", "a", "m", "p", ";">>), ">", <<"&", "g", "t", ";">>)

\* str(s).replace("&", "&amp;").replace("<", "&lt;").replace(">", "&gt;")
esc_html(s) ==
  replace(replace(replace(s, "&", <<"&", "a", "m", "p", ";">>),
                  "<", <<"&", "l", "t", ";">>),
          ">", <<"&", "g", "t", ";">>)

\* the <tr> cells render_leaderboard_table writes for one row of the view
render_leaderboard_table(df_view) ==
  [i \in 1..Len(df_view) |->
     [rank |-> df_view[i].Rank,
      team |-> esc_html(df_view[i].Team),
      score |-> esc_html(df_view[i].Score),
      status |-> esc_html(df_view[i].Status)]]


(* ------------------------------ state --------------------------------- *)
VARIABLES
  secret,         \* st.secrets has [leaderboard] csv_url
  sheet,          \* the published sheet: [layout, subs], raw text
  net_up,         \* pd.read_csv(csv_url) succeeds
  cache,          \* st.cache_data entry of load_sheet: [has, df]
  refresh_count,  \* value st_autorefresh returns to the next run (None before)
  pandas,         \* behaviour of the installed pandas: [str_keeps_na, empty_apply_raises]
  normalized,     \* result of normalize_columns in the last run
  ranked,         \* `data` after ranking in the last run
  display,        \* what the last run rendered
  shown,          \* slices of the last consecutive runs over an unchanged ranked list
  probe           \* a direct call of compute_score_k: [done, score, base]

vars == << secret, sheet, net_up, cache, refresh_count, pandas,
           normalized, ranked, display, shown, probe >>

None == -1

(* --------------------------- the data source -------------------------- *)
\* the strings pd.read_csv reads as missing, among those over Ascii
NaStrings ==
  { <<>>, S_nan, <<"N", "A">>, <<"N", "a", "N">>, <<"n", "u", "l", "l">>,
    <<"N", "U", "L", "L">>, <<"N", "o", "n", "e">>, <<"<", "N", "A", ">">>,
    <<"-", "n", "a", "n">>, <<"-", "N", "a", "N">> }

ReadCell(text) == IF text \in NaStrings THEN NA ELSE Txt(text)

\* pd.read_csv of the published sheet: the header row and one row of cells per
\* submission, each column holding the field its layout entry names.  Text
\* cells keep their text (quoted numbers with commas stay text; the float
\* formatting of an all-numeric column is not modelled).
read_csv(sh) ==
  [columns |-> [i \in 1..Len(sh.layout) |-> sh.layout[i].h],
   rows |-> [r \in 1..Len(sh.subs) |->
               [i \in 1..Len(sh.layout) |-> ReadCell(sh.subs[r][sh.layout[i].f])]]]

NoDf == [columns |-> <<>>, rows |-> <<>>]

(* ----------------------- clean, score, rank --------------------------- *)
\* .astype(str): NaN becomes the text "nan", or stays missing where the
\* installed pandas keeps missing values in string casts
astype_str(c) == IF c.na /\ pandas.str_keeps_na THEN NA ELSE Txt(str(c))

\* .str.strip() / .str.replace(",", "", regex=False) keep a missing value
str_strip(c) == IF c.na THEN NA ELSE Txt(strip(c.s))
str_replace_comma(c) == IF c.na THEN NA ELSE Txt(replace(c.s, ",", <<>>))

clean_row(r) ==
  [team_name |-> str_strip(astype_str(r.team_name)),
   outcome |-> str_strip(astype_str(r.outcome)),
   em_completed |-> str_strip(astype_str(r.em_completed)),
   cost_k |-> to_numeric(str_replace_comma(astype_str(r.cost_k)))]

clean(rows) == [i \in 1..Len(rows) |-> clean_row(rows[i])]

isna_row(r) == r.team_name.na \/ r.cost_k.k = "nan" \/ r.outcome.na

RECURSIVE SelectRows(_, _)
SelectRows(rows, i) ==
  IF i > Len(rows) THEN <<>>
  ELSE (IF isna_row(rows[i]) THEN <<>> ELSE <<rows[i]>>) \o SelectRows(rows, i + 1)

\* data.dropna(subset=["team_name", "cost_k", "outcome"])
dropna(rows) == SelectRows(rows, 1)

with_score(rows) ==
  [i \in 1..Len(rows) |->
     [team_name |-> rows[i].team_name, outcome |-> rows[i].outcome,
      em_completed |-> rows[i].em_completed, cost_k |-> rows[i].cost_k,
      score_k |-> compute_score_k(rows[i].cost_k, rows[i].outcome, rows[i].em_completed)]]

\* float <
NumLess(a, b) ==
  \/ a.k = "num" /\ b.k = "num" /\ a.v < b.v
  \/ a.k = "num" /\ b.k = "inf"

\* faulty variant: score descending
KeyLessDesc(a, b) ==
  \/ NumLess(b.score_k, a.score_k)
  \/ a.score_k = b.score_k /\ StrLess(a.team_name.s, b.team_name.s)

\* the sort key ["score_k", "team_name"], both ascending
KeyLess(a, b) ==
  \/ NumLess(a.score_k, b.score_k)
  \/ a.score_k = b.score_k /\ StrLess(a.team_name.s, b.team_name.s)

RECURSIVE InsertSorted(_, _)
InsertSorted(sorted, r) ==
  IF sorted = <<>> THEN <<r>>
  ELSE IF KeyLess(r, Head(sorted)) THEN <<r>> \o sorted
  ELSE <<Head(sorted)>> \o InsertSorted(Tail(sorted), r)

RECURSIVE SortFrom(_, _, _)
SortFrom(rows, i, acc) ==
  IF i > Len(rows) THEN acc ELSE SortFrom(rows, i + 1, InsertSorted(acc, rows[i]))

\* sort_values(["score_k", "team_name"]): rows with equal keys keep their order
sort_values(rows) == SortFrom(rows, 1, <<>>)

\* range(1, len(data) + 1)
rank_range(n) == [i \in 1..n |-> i]

\* data after lines 286-289: score_k, sorted, rank, status
rank_rows(rows) ==
  LET sorted == sort_values(with_score(rows))
      rk == rank_range(Len(sorted))
  IN  [i \in 1..Len(sorted) |->
         [team_name |-> sorted[i].team_name, outcome |-> sorted[i].outcome,
          em_completed |-> sorted[i].em_completed, cost_k |-> sorted[i].cost_k,
          score_k |-> sorted[i].score_k, rank |-> rk[i],
          status |-> outcome_badge(sorted[i].outcome)]]

\* (score_k * 1000).round(0).astype(int) raises on a non-finite value
cast_raises(rows) == \E i \in 1..Len(rows) : rows[i].score_k.k # "num"

score_display(r) == FormatDollars(r.score_k.v * DOLLARS_PER_K)

(* ----------------------------- paginate ------------------------------- *)
\* math.ceil(n / d) for n >= 0, d > 0
ceil_div(n, d) == IF n % d = 0 THEN n \div d ELSE (n \div d) + 1

Max(a, b) == IF a >= b THEN a ELSE b
Min(a, b) == IF a <= b THEN a ELSE b

\* (refresh_count or 0)
or0(c) == IF c = None \/ c = 0 THEN 0 ELSE c

\* faulty variant: floor instead of math.ceil
total_pages_floor(n) == Max(1, n \div PAGE_SIZE)

\* line 305
total_pages_of(n) == Max(1, ceil_div(n, PAGE_SIZE))

\* faulty variant: end not clamped to len(data)
paginate_NoClamp(n, t) ==
  LET tp == total_pages_of(n)
      pg == t % tp
      st == pg * PAGE_SIZE
  IN  [total_pages |-> tp, page |-> pg, start |-> st, end_ |-> st + PAGE_SIZE]

\* lines 305-308
paginate(n, t) ==
  LET tp == total_pages_of(n)
      pg == t % tp
      st == pg * PAGE_SIZE
  IN  [total_pages |-> tp, page |-> pg, start |-> st, end_ |-> Min(st + PAGE_SIZE, n)]

\* data.iloc[start:end][...] renamed to Rank, Team, Score, Status
view_of(rows, st, en) ==
  [i \in 1..(Min(en, Len(rows)) - Min(st, Len(rows))) |->
     [Rank |-> rows[st + i].rank, Team |-> rows[st + i].team_name.s,
      Score |-> score_display(rows[st + i]), Status |-> rows[st + i].status]]


(* ------------------------- one run of the script ---------------------- *)
\* nothing rendered below the static title
Blank ==
  [kind |-> "none", fetched |-> FALSE, found |-> <<>>,
   meta |-> FALSE, total |-> 0,
   caption |-> FALSE, cap_from |-> 0, cap_to |-> 0, cap_of |-> 0,
   cap_page |-> 0, cap_pages |-> 0,
   table |-> FALSE, rows |-> <<>>,
   t |-> 0, start |-> 0, end_ |-> 0, page |-> 0, total_pages |-> 0]

NoNorm == [ok |-> FALSE, via |-> "none", rows |-> <<>>, found |-> <<>>]

Stopped(kind, fetched, t) == [Blank EXCEPT !.kind = kind, !.fetched = fetched, !.t = t]

\* df.empty: no rows or no columns
df_empty(df) == Len(df.rows) = 0 \/ Len(df.columns) = 0

\* lines 299-319: the entry count, the page, the caption and the table
render(data, fetched, t) ==
  LET n == Len(data)
      pg == paginate(n, t)
      view == view_of(data, pg.start, pg.end_)
  IN  [kind |-> "table", fetched |-> fetched, found |-> <<>>,
       meta |-> TRUE, total |-> n,
       caption |-> TRUE, cap_from |-> pg.start + 1, cap_to |-> pg.end_, cap_of |-> n,
       cap_page |-> pg.page + 1, cap_pages |-> pg.total_pages,
       table |-> TRUE, rows |-> render_leaderboard_table(view),
       t |-> t, start |-> pg.start, end_ |-> pg.end_, page |-> pg.page,
       total_pages |-> pg.total_pages]

\* lines 264-319: load_sheet onwards, with the counter value t; hit:
\* load_sheet is served from the st.cache_data entry.  The result names the
\* new cache entry, the values of normalize_columns and of `data`, and what
\* was rendered.
Loaded(hit, t) ==
  IF ~hit /\ ~net_up
  THEN [cache |-> cache, normalized |-> NoNorm, ranked |-> <<>>,
        display |-> Stopped("fetch_error", TRUE, t)]
  ELSE
    LET df == IF hit THEN cache.df ELSE read_csv(sheet)
        c2 == [has |-> TRUE, df |-> df]
    IN  IF df_empty(df)
        THEN [cache |-> c2, normalized |-> NoNorm, ranked |-> <<>>,
              display |-> Stopped("no_submissions", ~hit, t)]
        ELSE
          LET nz == normalize_columns(df)
          IN  IF ~nz.ok
              THEN [cache |-> c2, normalized |-> nz, ranked |-> <<>>,
                    display |-> [Stopped("schema_error", ~hit, t)
                                   EXCEPT !.found = nz.found]]
              ELSE
                LET kept == dropna(clean(nz.rows))
                IN  IF kept = <<>> /\ pandas.empty_apply_raises
                    THEN [cache |-> c2, normalized |-> nz, ranked |-> <<>>,
                          display |-> Stopped("apply_error", ~hit, t)]
                    ELSE
                      LET data == rank_rows(kept)
                      IN  IF cast_raises(data)
                          THEN [cache |-> c2, normalized |-> nz, ranked |-> data,
                                display |-> Stopped("cast_error", ~hit, t)]
                          ELSE [cache |-> c2, normalized |-> nz, ranked |-> data,
                                display |-> render(data, ~hit, t)]

\* faulty variant: st.error without st.stop(), so load_sheet(None) runs and raises
Script_NoStop(hit, t) ==
  IF ~secret
  THEN [cache |-> cache, normalized |-> NoNorm, ranked |-> <<>>,
        display |-> Stopped("fetch_error", TRUE, t)]
  ELSE Loaded(hit, t)

\* lines 259-319: one run of the script
Script(hit, t) ==
  IF ~secret
  THEN [cache |-> cache, normalized |-> NoNorm, ranked |-> <<>>,
        display |-> Stopped("config_error", FALSE, t)]
  ELSE Loaded(hit, t)

LastN(s, k) == IF Len(s) <= k THEN s ELSE SubSeq(s, Len(s) - k + 1, Len(s))

\* a timer tick of st_autorefresh: the whole script runs once
Tick ==
  /\ or0(refresh_count) <= MaxTick
  /\ \E hit \in BOOLEAN :
       /\ hit => cache.has
       /\ \E out \in {Script(hit, or0(refresh_count))} :
            /\ cache' = out.cache
            /\ normalized' = out.normalized
            /\ ranked' = out.ranked
            /\ display' = out.display
            /\ shown' =
                 IF out.display.kind # "table" THEN <<>>
                 ELSE IF display.kind = "table" /\ out.ranked = ranked
                 THEN LastN(Append(shown, [start |-> out.display.start,
                                           end_ |-> out.display.end_]),
                            out.display.total_pages)
                 ELSE << [start |-> out.display.start, end_ |-> out.display.end_] >>
  /\ refresh_count' = or0(refresh_count) + 1
  /\ UNCHANGED << secret, sheet, net_up, pandas, probe >>

(* ----------------------------- environment ---------------------------- *)
S_Alpha == << "A", "l", "p", "h", "a" >>
S_Beta == << "B", "e", "t", "a" >>
S_500 == << "5", "0", "0" >>
S_510 == << "5", "1", "0" >>
S_1c500 == << "1", ",", "5", "0", "0" >>
S_abc == << "a", "b", "c" >>
S_No == << "N", "o" >>
S_Yes == << "Y", "e", "s" >>
S_ts == << "2", "0", "2", "5" >>
S_UnharmedEgg == << "U", "n", "h", "a", "r", "m", "e", "d", " ", "E", "g", "g" >>
S_CrackedEgg == << "C", "r", "a", "c", "k", "e", "d", " ", "E", "g", "g" >>
S_BrokenEgg == << "B", "r", "o", "k", "e", "n", " ", "E", "g", "g" >>

Sub(team, cost, outcome, em) ==
  [ts |-> S_ts, team |-> team, cost |-> cost, outcome |-> outcome, em |-> em,
   extra |-> <<"x">>]

\* form submissions that may arrive
RowPool ==
  { Sub(S_Alpha, S_500, S_UnharmedEgg, S_No),
    Sub(<<>>, S_1c500, S_CrackedEgg, S_y),
    Sub(<<" ", " ">>, S_500, S_BrokenEgg, S_No),
    Sub(S_Beta, S_abc, S_UnharmedEgg, S_No),
    Sub(S_Alpha, S_inf, S_UnharmedEgg, S_No),
    Sub(S_Beta, S_500, <<>>, S_Yes) }

Col(h, f) == [h |-> h, f |-> f]

CanonicalLayout ==
  << Col("Timestamp", "ts"), Col(H_TEAM, "team"), Col(H_COST, "cost"),
     Col(H_OUTCOME, "outcome"), Col(H_EMS, "em") >>

\* four columns under headers the script does not know
UnknownLayout4 ==
  << Col("Team", "team"), Col("Cost", "cost"), Col("Result", "outcome"),
     Col("EM", "em") >>

\* a form submission is appended to the sheet
Submit ==
  /\ Len(sheet.subs) < MaxSubs
  /\ \E r \in RowPool : sheet' = [sheet EXCEPT !.subs = Append(@, r)]
  /\ UNCHANGED << secret, net_up, cache, refresh_count, pandas,
                  normalized, ranked, display, shown, probe >>

SetSecret ==
  /\ ~secret
  /\ secret' = TRUE
  /\ UNCHANGED << sheet, net_up, cache, refresh_count, pandas,
                  normalized, ranked, display, shown, probe >>

NetDown ==
  /\ net_up
  /\ net_up' = FALSE
  /\ UNCHANGED << secret, sheet, cache, refresh_count, pandas,
                  normalized, ranked, display, shown, probe >>

NetUp ==
  /\ ~net_up
  /\ net_up' = TRUE
  /\ UNCHANGED << secret, sheet, cache, refresh_count, pandas,
                  normalized, ranked, display, shown, probe >>

NoProbe == [done |-> FALSE, score |-> NaN, base |-> NaN]

\* the pandas that may be installed: string casts that keep missing values
\* came after the ValueError on assigning an empty multi-column frame
PandasBuilds ==
  { [str_keeps_na |-> FALSE, empty_apply_raises |-> FALSE],
    [str_keeps_na |-> FALSE, empty_apply_raises |-> TRUE],
    [str_keeps_na |-> TRUE, empty_apply_raises |-> TRUE] }

InitWith(sheets) ==
  /\ sheet \in sheets
  /\ net_up = TRUE
  /\ cache = [has |-> FALSE, df |-> NoDf]
  /\ refresh_count = None
  /\ pandas \in PandasBuilds
  /\ normalized = NoNorm
  /\ ranked = <<>>
  /\ display = Blank
  /\ shown = <<>>
  /\ probe = NoProbe

Init ==
  /\ secret \in BOOLEAN
  /\ InitWith({ [layout |-> l, subs |-> <<>>] : l \in {CanonicalLayout, UnknownLayout4} })

Next == Tick \/ Submit \/ SetSecret \/ NetDown \/ NetUp

Spec == Init /\ [][Next]_vars


(* ------------------- pagination over large sheets --------------------- *)
\* submission i of a large sheet: five teams, scores that tie across and
\* within teams, one row (the fifth) with a cost that is not a number
BigSub(i) ==
  Sub(<<"T", DigitChars[(i % 5) + 1]>>,
      IF i = 5 THEN S_abc ELSE Digits(100 * (i % 2)),
      IF i % 3 = 0 THEN S_CrackedEgg ELSE S_UnharmedEgg,
      IF i % 4 = 0 THEN S_Yes ELSE S_No)

BigSheet(n) == [layout |-> CanonicalLayout, subs |-> [i \in 1..n |-> BigSub(i)]]

InitPage ==
  /\ secret = TRUE
  /\ InitWith({ BigSheet(n) : n \in 0..MaxRows })

NextPage == Tick

SpecPage == InitPage /\ [][NextPage]_vars

(* ------------------- untrusted text in the table ---------------------- *)
EscAlphabet == { "&", "<", ">", ";", "a" }

\* text that already holds entities or tags
EscExtra ==
  { << "&", "l", "t", ";" >>, << "&", "a", "m", "p", ";" >>,
    << "&", "a", "m", "p", ";", "l", "t", ";" >>,
    << "<", "b", ">", "A", "<", "/", "b", ">" >>,
    << "A", " ", "&", " ", "B" >>, << "&", "g", "t", ";", ">", "&" >> }

EscStrings == UNION { [1..k -> EscAlphabet] : k \in 0..MaxEscLen } \cup EscExtra

EscSheet(s) ==
  [layout |-> CanonicalLayout,
   subs |-> << Sub(s, S_500, s, S_No), Sub(S_Alpha, S_510, S_BrokenEgg, S_No) >>]

InitEsc ==
  /\ secret = TRUE
  /\ InitWith({ EscSheet(s) : s \in EscStrings })

NextEsc == Tick

SpecEsc == InitEsc /\ [][NextEsc]_vars

(* --------------------------- scoring inputs --------------------------- *)
\* sample cells with what they mean: cost text and its value in $K
CostSamples ==
  { [text |-> S_500, v |-> 500],
    [text |-> S_1c500, v |-> 1500],
    [text |-> <<"0">>, v |-> 0] }

\* outcome text and its tier
OutcomeSamples ==
  { [text |-> S_UnharmedEgg, tier |-> "successful"],
    [text |-> <<" ">> \o S_unharmed \o <<" ">>, tier |-> "successful"],
    [text |-> S_CrackedEgg, tier |-> "partial"],
    [text |-> <<" ", " ">> \o S_cracked, tier |-> "partial"],
    [text |-> << "C", "R", "A", "C", "K", "E", "D", " ", "E", "G", "G", " " >>,
     tier |-> "partial"],
    [text |-> S_BrokenEgg, tier |-> "total"],
    [text |-> << " ", "b", "R", "O", "K", "E", "N", " ", "e", "g", "g" >>, tier |-> "total"],
    [text |-> << "C", "r", "a", "c", "k", "e", "d" >>, tier |-> "unrecognized"],
    [text |-> << "B", "r", "o", "k", "e", "n", " ", " ", "E", "g", "g" >>,
     tier |-> "unrecognized"],
    [text |-> << "S", "u", "r", "v", "i", "v", "e", "d" >>, tier |-> "unrecognized"] }

\* em_completed text and whether it is affirmative
EmSamples ==
  { [text |-> S_Yes, yes |-> TRUE],
    [text |-> << " ", "y", "E", "S", " " >>, yes |-> TRUE],
    [text |-> << "Y" >>, yes |-> TRUE],
    [text |-> << "T", "R", "U", "E" >>, yes |-> TRUE],
    [text |-> << " ", "t", "r", "u", "e" >>, yes |-> TRUE],
    [text |-> S_No, yes |-> FALSE],
    [text |-> << "y", "e", "s", " ", "s", "i", "r" >>, yes |-> FALSE],
    [text |-> << "1" >>, yes |-> FALSE],
    [text |-> <<>>, yes |-> FALSE] }

\* the sampled row as team Alpha, and the same row with em_completed "No" as Beta
ScoreSheet(c, o, e) ==
  [layout |-> CanonicalLayout,
   subs |-> << Sub(S_Alpha, c.text, o.text, e.text), Sub(S_Beta, c.text, o.text, S_No) >>]

InitScore ==
  /\ secret = TRUE
  /\ InitWith({ ScoreSheet(c, o, e) : c \in CostSamples, o \in OutcomeSamples,
                                      e \in EmSamples })

\* compute_score_k called on the sampled values as they are (no cleaning
\* before it), and on the same cost and outcome with em_completed "No"
Probe ==
  /\ ~probe.done
  /\ \E c \in CostSamples, o \in OutcomeSamples, e \in EmSamples :
       /\ sheet = ScoreSheet(c, o, e)
       /\ probe' = [done |-> TRUE,
                    score |-> compute_score_k(Num(c.v), Txt(o.text), Txt(e.text)),
                    base |-> compute_score_k(Num(c.v), Txt(o.text), Txt(S_No))]
  /\ UNCHANGED << secret, sheet, net_up, cache, refresh_count, pandas,
                  normalized, ranked, display, shown >>

NextScore == Tick \/ Probe

SpecScore == InitScore /\ [][NextScore]_vars

(* ---------------------------- header layouts -------------------------- *)
ExactCols(em) ==
  << Col("Timestamp", "ts"), Col(H_TEAM, "team"), Col(H_COST, "cost"),
     Col(H_OUTCOME, "outcome"), Col(em, "em") >>

\* the exact headers in every column order, with and without the timestamp
ExactLayouts ==
  { [i \in 1..5 |-> ExactCols(em)[p[i]]] :
      p \in Permutations(1..5), em \in {H_EMS, H_EM} }
  \cup
  { [i \in 1..4 |-> Tail(ExactCols(em))[p[i]]] :
      p \in Permutations(1..4), em \in {H_EMS, H_EM} }

\* the Google Form order under headers the script does not know
UnknownLayout5 ==
  << Col("Time", "ts"), Col("Team", "team"), Col("Cost", "cost"),
     Col("Result", "outcome"), Col("EM", "em") >>

OtherLayouts ==
  { UnknownLayout4,
    UnknownLayout5,
    UnknownLayout5 \o << Col("Notes", "extra") >>,
    \* both aliases
    ExactCols(H_EMS) \o << Col(H_EM, "extra") >>,
    << Col(H_EM, "extra") >> \o ExactCols(H_EMS),
    \* a required header or the EM column absent
    << Col(H_TEAM, "team"), Col(H_COST, "cost"), Col(H_OUTCOME, "outcome") >>,
    << Col(H_TEAM, "team"), Col(H_COST, "cost"), Col(H_EMS, "em"), Col("Notes", "extra") >>,
    << Col(H_TEAM, "team"), Col(H_COST, "cost"), Col(H_OUTCOME, "outcome"),
       Col("Timestamp", "ts"), Col("Notes", "extra") >>,
    << Col("Timestamp", "ts"), Col(H_TEAM, "team"), Col("Cost", "cost"),
       Col(H_OUTCOME, "outcome"), Col(H_EMS, "em"), Col("Notes", "extra") >>,
    << Col(H_TEAM, "team") >> }

NormSubs ==
  { << Sub(S_Alpha, S_500, S_UnharmedEgg, S_No), Sub(S_Beta, S_1c500, S_CrackedEgg, S_Yes) >>,
    << Sub(S_Beta, S_510, S_BrokenEgg, S_y) >> }

InitNorm ==
  /\ secret = TRUE
  /\ InitWith({ [layout |-> l, subs |-> d] :
                  l \in ExactLayouts \cup OtherLayouts, d \in NormSubs })

NextNorm == Tick

SpecNorm == InitNorm /\ [][NextNorm]_vars


(* ============================== claims ================================ *)

C2_EmptyState ==
  (display.kind \in {"no_submissions", "apply_error", "table"} /\ Len(ranked) = 0)
    => display.kind = "no_submissions"

\* text that is present: not missing and not empty after trimming
C3_Present(c) == ~c.na /\ strip(c.s) # <<>>

C3_CostOk(c) == ~c.na /\ to_numeric(Txt(replace(c.s, ",", <<>>))).k = "num"

C3_Valid(r) == C3_Present(r.team_name) /\ C3_Present(r.outcome) /\ C3_CostOk(r.cost_k)

\* C3 (as claimed): every ranked row has a present team_name, a present
\* outcome and a finite cost, and the ranked rows are as many as the fetched
\* rows that have all three.
C3_OnlyValidRows ==
  normalized.ok =>
    /\ \A i \in 1..Len(ranked) :
         /\ C3_Present(ranked[i].team_name)
         /\ C3_Present(ranked[i].outcome)
         /\ ranked[i].cost_k.k = "num"
    /\ (display.kind \in {"table", "cast_error"} =>
          Len(ranked) = Cardinality({ i \in 1..Len(normalized.rows) :
                                        C3_Valid(normalized.rows[i]) }))

\* entry a is strictly ordered before entry b under (score, team_name)
C4_Before(a, b) ==
  \/ a.score_k.k = "num" /\ b.score_k.k = "num" /\ a.score_k.v < b.score_k.v
  \/ a.score_k.k = "num" /\ b.score_k.k = "inf"
  \/ a.score_k = b.score_k /\ StrLess(a.team_name.s, b.team_name.s)

C4_NBefore(i) == Cardinality({ j \in 1..Len(ranked) : C4_Before(ranked[j], ranked[i]) })

C4_NSameKey(i) ==
  Cardinality({ j \in 1..Len(ranked) :
                  /\ ranked[j].score_k = ranked[i].score_k
                  /\ ranked[j].team_name = ranked[i].team_name })

\* C4 (as claimed): ranks are 1..n, any two distinct entries are strictly
\* ordered one way under (score, team_name), and an entry's rank is 1 plus
\* the number of entries strictly ordered before it.
C4_TotalOrder ==
  /\ \A i \in 1..Len(ranked) : ranked[i].rank = i
  /\ \A i, j \in 1..Len(ranked) :
       i # j => (C4_Before(ranked[i], ranked[j]) # C4_Before(ranked[j], ranked[i]))
  /\ \A i \in 1..Len(ranked) : ranked[i].rank = 1 + C4_NBefore(i)

\* C4 (amended): ranks are 1..n in list order, the list never puts an entry
\* after one it is strictly ordered before, entries of equal score are in
\* ascending team_name order, and an entry's rank lies from 1 plus the number
\* of entries strictly before it up to that number plus the number of entries
\* with its own (score, team_name) -- so it is exactly 1 plus the number
\* strictly before it when no other entry shares its score and team_name.
C4_SortedDense ==
  /\ \A i \in 1..Len(ranked) : ranked[i].rank = i
  /\ \A i, j \in 1..Len(ranked) :
       i < j => ~C4_Before(ranked[j], ranked[i])
  /\ \A i, j \in 1..Len(ranked) :
       (i < j /\ ranked[i].score_k = ranked[j].score_k)
         => ~StrLess(ranked[j].team_name.s, ranked[i].team_name.s)
  /\ \A i \in 1..Len(ranked) :
       /\ ranked[i].rank >= 1 + C4_NBefore(i)
       /\ ranked[i].rank <= C4_NBefore(i) + C4_NSameKey(i)
       /\ (C4_NSameKey(i) = 1 => ranked[i].rank = 1 + C4_NBefore(i))

\* a ranked list with a score tie between two teams and with two entries of
\* one team at one score
C4_Witness ==
  /\ Len(ranked) > 18
  /\ \E i, j \in 1..Len(ranked) :
       /\ i < j
       /\ ranked[i].score_k = ranked[j].score_k
       /\ ranked[i].team_name # ranked[j].team_name
  /\ \E i \in 1..Len(ranked) : C4_NSameKey(i) > 1

C5_TierPenalty(tier) ==
  CASE tier = "successful" -> 0
    [] tier = "partial" -> 1000
    [] tier = "total" -> 10000
    [] tier = "unrecognized" -> 0

C5_Row(team) == ranked[CHOOSE i \in 1..Len(ranked) : ranked[i].team_name.s = team]

C5_Expected(c, o, e) == c.v + C5_TierPenalty(o.tier) - (IF e.yes THEN 10 ELSE 0)

\* C5: compute_score_k returns cost + penalty - refund, the penalty 0 / 1000 /
\* 10000 / 0 by the outcome's tier (successful, partial, total, unrecognized;
\* any case, any surrounding blanks) and the refund 10 exactly when
\* em_completed is yes, y or true (any case, any surrounding blanks), both
\* when called on the raw text and for the rows the script ranks; the same
\* row with em_completed "No" scores exactly 10 more than an affirmative one.
C5_Score ==
  LET c == CHOOSE x \in CostSamples : x.text = sheet.subs[1].cost
      o == CHOOSE x \in OutcomeSamples : x.text = sheet.subs[1].outcome
      e == CHOOSE x \in EmSamples : x.text = sheet.subs[1].em
  IN  /\ C5_TierPenalty("total") = 10 * C5_TierPenalty("partial")
      /\ (probe.done =>
            /\ probe.score = Num(C5_Expected(c, o, e))
            /\ probe.base = Num(c.v + C5_TierPenalty(o.tier))
            /\ (e.yes => probe.score.v = probe.base.v - 10)
            /\ (~e.yes => probe.score.v = probe.base.v))
      /\ (display.kind = "table" =>
            /\ Len(ranked) = 2
            /\ C5_Row(S_Alpha).score_k = Num(C5_Expected(c, o, e))
            /\ C5_Row(S_Beta).score_k = Num(c.v + C5_TierPenalty(o.tier)))

\* cost 500, a padded mixed-case total failure, a padded affirmative: 10490,
\* called directly and ranked by the script
C5_Witness ==
  /\ display.kind = "table"
  /\ probe.done
  /\ sheet.subs[1].cost = S_500
  /\ sheet.subs[1].outcome = << " ", "b", "R", "O", "K", "E", "N", " ", "e", "g", "g" >>
  /\ sheet.subs[1].em = << " ", "y", "E", "S", " " >>
  /\ probe.score = Num(10490)
  /\ probe.base = Num(10500)
  /\ C5_Row(S_Alpha).score_k = Num(10490)
  /\ C5_Row(S_Beta).score_k = Num(10500)

\* C6: with the ranked list unchanged, the slices shown over total_pages
\* consecutive ticks contain every rank 1..n exactly once, and the rows on the
\* page carry the ranks start+1 .. end that the caption states.
C6_CycleCovers ==
  display.kind = "table" =>
    /\ Len(display.rows) = display.end_ - display.start
    /\ \A i \in 1..Len(display.rows) : display.rows[i].rank = display.start + i
    /\ display.cap_from = display.start + 1
    /\ display.cap_to = display.end_
    /\ display.cap_of = Len(ranked)
    /\ (Len(shown) = display.total_pages =>
          \A k \in 1..Len(ranked) :
            Cardinality({ j \in 1..Len(shown) :
                            shown[j].start < k /\ k <= shown[j].end_ }) = 1)

\* a full cycle of three pages that did not start at counter value 0
C6_Witness ==
  /\ display.kind = "table"
  /\ display.total_pages = 3
  /\ Len(shown) = 3
  /\ display.t = 4

\* the same submissions in the Google Form order under unknown headers
C7_Canonical(subs) == [layout |-> UnknownLayout5, subs |-> subs]

\* C7: a table with the exact headers, in any column order, normalizes to the
\* rows that the positional fallback yields for the same submissions laid out
\* as timestamp, team, cost, outcome, em.
C7_OrderIndependent ==
  (normalized.via # "none" /\ sheet.layout \in ExactLayouts) =>
    LET ref == normalize_columns(read_csv(C7_Canonical(sheet.subs)))
    IN  /\ ref.via = "positional"
        /\ normalized.ok
        /\ normalized.rows = ref.rows

\* exact headers with Outcome first and the timestamp in the middle
C7_Witness ==
  /\ normalized.via = "named"
  /\ Len(sheet.layout) = 5
  /\ sheet.layout[1].h = H_OUTCOME
  /\ sheet.layout[3].h = "Timestamp"
  /\ Len(normalized.rows) = 2

C8_Headers == [i \in 1..Len(sheet.layout) |-> sheet.layout[i].h]

C8_HeaderSet == { sheet.layout[i].h : i \in 1..Len(sheet.layout) }

C8_Named ==
  /\ {"Team Name", "Supply Cost in $", "Outcome"} \subseteq C8_HeaderSet
  /\ ("EM Questions Completed" \in C8_HeaderSet \/ "EM Question Completed" \in C8_HeaderSet)

C8_Cell(r, i) == ReadCell(sheet.subs[r][sheet.layout[i].f])

\* C8: normalize_columns raises, with the headers it found, exactly when the
\* named match fails and there are fewer than 5 columns; a named match is
\* used whatever the number of columns; a failed match on 5 or more columns
\* takes columns 2-5 as team_name, cost, outcome, em_completed.
C8_ErrorIff ==
  normalized.via # "none" =>
    /\ (~normalized.ok) <=> (~C8_Named /\ Len(sheet.layout) < 5)
    /\ (~normalized.ok =>
          /\ normalized.found = C8_Headers
          /\ display.kind = "schema_error"
          /\ display.found = C8_Headers)
    /\ (C8_Named =>
          /\ normalized.via = "named"
          /\ Len(normalized.rows) = Len(sheet.subs)
          /\ \A r \in 1..Len(sheet.subs) :
               /\ normalized.rows[r].team_name = ReadCell(sheet.subs[r].team)
               /\ normalized.rows[r].cost_k = ReadCell(sheet.subs[r].cost)
               /\ normalized.rows[r].outcome = ReadCell(sheet.subs[r].outcome)
               /\ normalized.rows[r].em_completed = ReadCell(sheet.subs[r].em))
    /\ ((~C8_Named /\ Len(sheet.layout) >= 5) =>
          /\ normalized.via = "positional"
          /\ Len(normalized.rows) = Len(sheet.subs)
          /\ \A r \in 1..Len(sheet.subs) :
               /\ normalized.rows[r].team_name = C8_Cell(r, 2)
               /\ normalized.rows[r].cost_k = C8_Cell(r, 3)
               /\ normalized.rows[r].outcome = C8_Cell(r, 4)
               /\ normalized.rows[r].em_completed = C8_Cell(r, 5))

\* four columns, none of them under a known header: the error with the headers
C8_Witness ==
  /\ normalized.via = "error"
  /\ Len(sheet.layout) = 4
  /\ display.kind = "schema_error"
  /\ display.found = << "Team", "Cost", "Result", "EM" >>

C9_FatalKinds == {"config_error", "fetch_error", "schema_error"}

C9_NothingRendered ==
  display.kind \in C9_FatalKinds =>
    /\ ~display.meta
    /\ ~display.caption
    /\ ~display.table
    /\ display.rows = <<>>
    /\ ranked = <<>>
    /\ (display.kind = "config_error" => ~display.fetched /\ normalized.via = "none")
    /\ (display.kind = "fetch_error" => normalized.via = "none")
    /\ (display.kind = "schema_error" => ~normalized.ok)

C9_TickStep ==
  refresh_count' # refresh_count =>
    /\ (~secret => display'.kind = "config_error" /\ cache' = cache)
    /\ ((secret /\ ~net_up /\ display'.fetched) => display'.kind = "fetch_error")
    /\ ((display.kind \in C9_FatalKinds /\ secret /\ net_up)
          => display'.kind \notin {"config_error", "fetch_error"})
    /\ ((display.kind \in C9_FatalKinds /\ secret /\ net_up /\ display'.fetched
           /\ NamedMatch(read_csv(sheet)) /\ sheet.subs # <<>>)
          => display'.kind \in {"table", "apply_error", "cast_error"})

\* C9: a tick that hits a fatal error (no fetch target, fetch failure,
\* normalization failure) stops there: nothing of the leaderboard is rendered
\* and no later step has run, without a fetch target nothing is fetched, and
\* the tick after it runs the pipeline from its first step again.
C9_FatalStops == [] C9_NothingRendered /\ [][C9_TickStep]_vars

\* a fetch failure on a tick that follows a fetched table
C9_Witness ==
  /\ display.kind = "fetch_error"
  /\ cache.has
  /\ cache.df.rows # <<>>

C10_StartsWith(s, i, e) == i + Len(e) - 1 <= Len(s) /\ SubSeq(s, i, i + Len(e) - 1) = e

C10_Amp == << "&", "a", "m", "p", ";" >>
C10_Lt == << "&", "l", "t", ";" >>
C10_Gt == << "&", "g", "t", ";" >>

\* no markup character, and every & starts one of the three entities
C10_Safe(s) ==
  \A i \in 1..Len(s) :
    /\ s[i] \notin {"<", ">"}
    /\ (s[i] = "&" =>
          \/ C10_StartsWith(s, i, C10_Amp)
          \/ C10_StartsWith(s, i, C10_Lt)
          \/ C10_StartsWith(s, i, C10_Gt))

\* what a browser shows for escaped text: each entity read once
RECURSIVE C10_Unescape(_)
C10_Unescape(s) ==
  IF s = <<>> THEN <<>>
  ELSE IF C10_StartsWith(s, 1, C10_Amp)
       THEN <<"&">> \o C10_Unescape(SubSeq(s, 6, Len(s)))
  ELSE IF C10_StartsWith(s, 1, C10_Lt)
       THEN <<"<">> \o C10_Unescape(SubSeq(s, 5, Len(s)))
  ELSE IF C10_StartsWith(s, 1, C10_Gt)
       THEN <<">">> \o C10_Unescape(SubSeq(s, 5, Len(s)))
  ELSE <<Head(s)>> \o C10_Unescape(Tail(s))

\* C10: every Team, Score and Status cell of the rendered table is the
\* escaped form of the entry's text: it holds no < or >, every & in it starts
\* &amp;, &lt; or &gt;, and reading each entity once gives the text back (no
\* entity is escaped twice).
C10_Escaped ==
  display.kind = "table" =>
    \A i \in 1..Len(display.rows) :
      LET src == ranked[display.start + i]
          cell == display.rows[i]
      IN  /\ C10_Safe(cell.team)
          /\ C10_Safe(cell.score)
          /\ C10_Safe(cell.status)
          /\ C10_Unescape(cell.team) = src.team_name.s
          /\ C10_Unescape(cell.status) = src.status
          /\ C10_Unescape(cell.score) = score_display(src)

\* a team name and status made of the three characters, beside the F&F badge
C10_Witness ==
  /\ display.kind = "table"
  /\ \E i \in 1..Len(display.rows) :
       /\ ranked[display.start + i].team_name.s = << "<", "&", ">" >>
       /\ ranked[display.start + i].status = << "<", "&", ">" >>
  /\ \E i \in 1..Len(display.rows) : ranked[display.start + i].status = B_claim

=============================================================================
